---- MODULE Spec2Model ----
(***************************************************************************)
(* Model of extract.py: the BOAHTMLParser callbacks (handle_starttag,      *)
(* handle_endtag, handle_data), build_rows and main.                       *)
(*                                                                         *)
(* Text is a sequence of one-character strings, so that str.split,         *)
(* " ".join, "".join and TAXON_RE are computed character by character.     *)
(* Tag names and attribute values are compared whole and are TLA+ strings. *)
(***************************************************************************)
EXTENDS Naturals, Sequences, FiniteSets

(***************************************************************************)
(* Bounds of the model.                                                    *)
(***************************************************************************)
\* Number of parser callbacks (markup events) fed to one parser.
MaxEvents == 9
\* Number of parser callbacks fed to one parser for a well-nested page.
MaxPageEvents == 15
\* Number of text chunks of one element of a well-nested page.
MaxChunks == 2
\* Length of the item list handed to build_rows when it is checked alone.
MaxItems == 4

(***************************************************************************)
(* Characters and text.                                                    *)
(***************************************************************************)
\* [A-Z] of TAXON_RE, restricted to the letters of the model's alphabet.
UpperChars == {"P"}
\* [a-z] of TAXON_RE, restricted to the letters of the model's alphabet.
LowerChars == {"a", "b", "c"}
\* The "-" of the class [a-z\-].
HyphenChar == "-"
\* The characters str.split() and \s treat as whitespace.
SpaceChars == {" "}

\* The empty str "".
EmptyText == << >>

\* Optional[str] None; None and "" are both falsy and used only that way.
None == << >>

\* Python truthiness of a str or None: `if s`.
Truthy(s) == s # << >>

RECURSIVE ConcatAll(_)
\* "".join(buf)
ConcatAll(buf) ==
    IF buf = << >> THEN << >> ELSE Head(buf) \o ConcatAll(Tail(buf))

RECURSIVE SplitFrom(_, _, _, _)
SplitFrom(text, i, cur, acc) ==
    IF i > Len(text)
    THEN IF cur = << >> THEN acc ELSE Append(acc, cur)
    ELSE IF text[i] \in SpaceChars
         THEN SplitFrom(text, i + 1, << >>,
                        IF cur = << >> THEN acc ELSE Append(acc, cur))
         ELSE SplitFrom(text, i + 1, Append(cur, text[i]), acc)

\* str.split(): the maximal runs of non-whitespace characters, in order.
Split(text) == SplitFrom(text, 1, << >>, << >>)

RECURSIVE JoinSpace(_)
\* " ".join(words)
JoinSpace(words) ==
    IF words = << >> THEN << >>
    ELSE IF Len(words) = 1 THEN words[1]
    ELSE words[1] \o <<" ">> \o JoinSpace(Tail(words))

\* " ".join("".join(buf).split())
CollapseBuf(buf) == JoinSpace(Split(ConcatAll(buf)))

(***************************************************************************)
(* TAXON_RE                                                                *)
(***************************************************************************)
\* [A-Z][a-z]+
IsGenusWord(w) ==
    /\ Len(w) >= 2
    /\ w[1] \in UpperChars
    /\ \A k \in 2..Len(w) : w[k] \in LowerChars

\* [a-z][a-z\-]*
IsEpithetWord(w) ==
    /\ Len(w) >= 1
    /\ w[1] \in LowerChars
    /\ \A k \in 2..Len(w) : w[k] \in LowerChars \cup {HyphenChar}

\* TAXON_RE.match(text): the match is anchored at both ends, its groups are
\* separated by whitespace runs, and group 3 is optional.
TaxonMatch(text) ==
    LET w == Split(text)
        ok == /\ text # << >>
              /\ text[1] \notin SpaceChars
              /\ text[Len(text)] \notin SpaceChars
              /\ Len(w) \in {2, 3}
              /\ IsGenusWord(w[1])
              /\ IsEpithetWord(w[2])
              /\ (Len(w) = 3 => IsEpithetWord(w[3]))
    IN  IF ok
        THEN [matched |-> TRUE, genus |-> w[1], sp |-> w[2],
              ssp |-> IF Len(w) = 3 THEN w[3] ELSE None]
        ELSE [matched |-> FALSE, genus |-> None, sp |-> None, ssp |-> None]

(***************************************************************************)
(* TaxonItem, and the two text helpers of build_rows.                      *)
(***************************************************************************)
TaxonItem(kind, taxon) == [kind |-> kind, taxon |-> taxon]

normalize_species(taxon_text) ==
    LET parts == Split(taxon_text)
    IN  IF Len(parts) >= 2
        THEN parts[1] \o <<" ">> \o parts[2]
        ELSE JoinSpace(parts)

\* Faulty variant of subspecies_epithet_only: parts[0] instead of parts[-1].
subspecies_epithet_first(trinomial_text) ==
    LET parts == Split(trinomial_text)
    IN  IF parts # << >> THEN parts[1] ELSE EmptyText

subspecies_epithet_only(trinomial_text) ==
    LET parts == Split(trinomial_text)
    IN  IF parts # << >> THEN parts[Len(parts)] ELSE EmptyText

\* dict.get(key, "")
DictGet(d, key) == IF key \in DOMAIN d THEN d[key] ELSE EmptyText

\* d[key] = value
DictSet(d, key, value) ==
    [k \in (DOMAIN d) \cup {key} |-> IF k = key THEN value ELSE d[k]]

\* {}
EmptyDict == [k \in {} |-> EmptyText]

(***************************************************************************)
(* Inputs of the parser: the callbacks HTMLParser.feed makes.              *)
(***************************************************************************)
\* An attribute value: << >> is None (an attribute written without a value),
\* <<v>> is the string v.
AttrValue(v) == <<v>>
AttrNoValue == << >>

\* The (tag, attrs) pairs of the start tags fed to the parser; attrs is the
\* list of (name, value) pairs handle_starttag receives.
StartTags ==
    { <<"p", << <<"id", AttrValue("p9")>> >> >>,
      <<"p", << <<"ID", AttrValue("p9")>> >> >>,
      <<"p", << <<"id", AttrValue("p9s")>> >> >>,
      <<"p", << >> >>,
      <<"a", << >> >>,
      <<"i", << <<"id", AttrValue("e")>> >> >>,
      <<"i", << <<"id", AttrNoValue>> >> >>,
      <<"b", << >> >> }

\* The tags of the end tags fed to the parser.
EndTags == {"p", "a", "i", "b"}

\* The text chunks fed to handle_data.
DataChunks ==
    { << >>,
      <<"P", "a", " ", "b">>,
      <<"P", "a", " ", "c", "-", "a">>,
      <<" ", " ", "c">> }

\* str.lower() on the tag and attribute names of the model.
ToLower(s) ==
    CASE s = "ID" -> "id"
      [] s = "P" -> "p"
      [] s = "A" -> "a"
      [] s = "I" -> "i"
      [] OTHER -> s

\* (v or "")
ValueOrEmpty(v) == IF v = AttrNoValue THEN "" ELSE v[1]

RECURSIVE AttrsDictFrom(_, _)
AttrsDictFrom(attrs, d) ==
    IF attrs = << >> THEN d
    ELSE AttrsDictFrom(Tail(attrs),
            [k \in (DOMAIN d) \cup {ToLower(Head(attrs)[1])} |->
                IF k = ToLower(Head(attrs)[1])
                THEN ValueOrEmpty(Head(attrs)[2]) ELSE d[k]])

\* attrs_dict = {k.lower(): (v or "") for k, v in attrs}
AttrsDict(attrs) == AttrsDictFrom(attrs, [k \in {} |-> ""])

\* attrs_dict.get("id", "")
AttrId(attrs) ==
    LET d == AttrsDict(attrs) IN IF "id" \in DOMAIN d THEN d["id"] ELSE ""

(***************************************************************************)
(* State.                                                                  *)
(***************************************************************************)
VARIABLES
    pc,                 \* position of main / build_rows
    nfed,               \* number of callbacks feed() has made so far
    items,              \* BOAHTMLParser.items
    species_common,     \* BOAHTMLParser.species_common
    in_p9,              \* BOAHTMLParser._in_p9
    in_p9s,             \* BOAHTMLParser._in_p9s
    capture_a,          \* BOAHTMLParser._capture_a
    a_buf,              \* BOAHTMLParser._a_buf
    capture_common,     \* BOAHTMLParser._capture_common
    common_buf,         \* BOAHTMLParser._common_buf
    last_species_in_p9, \* BOAHTMLParser._last_species_in_p9
    rows,               \* build_rows: rows
    current_species,    \* build_rows: current_species
    current_common,     \* build_rows: current_common
    current_species_had_subspecies, \* build_rows: current_species_had_subspecies
    idx,                \* build_rows: position of `for it in items` (next item)
    deduped,            \* build_rows: deduped, the returned list (main: rows)
    writer_calls,       \* the row lists write_xlsx was called with, in order
    exit_code           \* the process's exit status, "unset" while running

parserVars == <<items, species_common, in_p9, in_p9s, capture_a, a_buf,
                capture_common, common_buf, last_species_in_p9>>
buildVars == <<rows, current_species, current_common,
               current_species_had_subspecies, idx, deduped>>
mainVars == <<writer_calls, exit_code>>
vars == <<pc, nfed, parserVars, buildVars, mainVars>>

\* BOAHTMLParser.__init__: the fields of a fresh parser.
ParserInit ==
    /\ items = << >>
    /\ species_common = EmptyDict
    /\ in_p9 = FALSE
    /\ in_p9s = FALSE
    /\ capture_a = FALSE
    /\ a_buf = << >>
    /\ capture_common = FALSE
    /\ common_buf = << >>
    /\ last_species_in_p9 = None

\* The locals of build_rows before the call: not yet bound.
BuildIdle ==
    /\ rows = << >>
    /\ current_species = EmptyText
    /\ current_common = EmptyText
    /\ current_species_had_subspecies = FALSE
    /\ idx = 1
    /\ deduped = << >>

(***************************************************************************)
(* BOAHTMLParser callbacks.                                                *)
(***************************************************************************)
\* The kind of the item recorded for a matching anchor (line 97).
ItemKind(inP9, inP9s, ssp) ==
    IF inP9s \/ (ssp # None /\ inP9) THEN "subspecies" ELSE "species"

\* Whether `<a>` starts an anchor capture (line 76).
AnchorCaptured(t, inP9, inP9s) == t = "a" /\ (inP9 \/ inP9s)

\* Whether `<i ...>` starts a common-name capture (line 81).
CommonCaptured(t, inP9, id) == t = "i" /\ inP9 /\ id = "e"

\* Faulty variant of handle_starttag: opening a p9s paragraph leaves the
\* species flag as it is.
handle_starttag_keeps_p9(tag, attrs) ==
    LET t == ToLower(tag)
        pid == AttrId(attrs)
        isP9 == t = "p" /\ pid = "p9"
        isP9s == t = "p" /\ pid = "p9s"
        inP9 == IF isP9 THEN TRUE ELSE in_p9
        inP9s == IF isP9 THEN FALSE ELSE IF isP9s THEN TRUE ELSE in_p9s
    IN  /\ pc = "feed"
        /\ nfed' = nfed + 1
        /\ in_p9' = inP9
        /\ in_p9s' = inP9s
        /\ last_species_in_p9' = IF isP9 THEN None ELSE last_species_in_p9
        /\ IF AnchorCaptured(t, inP9, inP9s)
           THEN capture_a' = TRUE /\ a_buf' = << >>
           ELSE UNCHANGED <<capture_a, a_buf>>
        /\ IF CommonCaptured(t, inP9, pid)
           THEN capture_common' = TRUE /\ common_buf' = << >>
           ELSE UNCHANGED <<capture_common, common_buf>>
        /\ UNCHANGED <<pc, items, species_common, buildVars, mainVars>>

handle_starttag(tag, attrs) ==
    LET t == ToLower(tag)
        pid == AttrId(attrs)
        isP9 == t = "p" /\ pid = "p9"
        isP9s == t = "p" /\ pid = "p9s"
        \* the flags after the `if t == "p"` block, read by the later ifs
        inP9 == IF isP9 THEN TRUE ELSE IF isP9s THEN FALSE ELSE in_p9
        inP9s == IF isP9 THEN FALSE ELSE IF isP9s THEN TRUE ELSE in_p9s
    IN  /\ pc = "feed"
        /\ nfed' = nfed + 1
        /\ in_p9' = inP9
        /\ in_p9s' = inP9s
        /\ last_species_in_p9' = IF isP9 THEN None ELSE last_species_in_p9
        /\ IF AnchorCaptured(t, inP9, inP9s)
           THEN capture_a' = TRUE /\ a_buf' = << >>
           ELSE UNCHANGED <<capture_a, a_buf>>
        /\ IF CommonCaptured(t, inP9, pid)
           THEN capture_common' = TRUE /\ common_buf' = << >>
           ELSE UNCHANGED <<capture_common, common_buf>>
        /\ UNCHANGED <<pc, items, species_common, buildVars, mainVars>>

\* Faulty variant of ItemsAfterAnchor: text that does not match TAXON_RE is
\* recorded as a species item.
ItemsAfterAnchorAlways(its, text, inP9, inP9s) ==
    LET m == TaxonMatch(text)
    IN  IF ~m.matched THEN Append(its, TaxonItem("species", text))
        ELSE IF ItemKind(inP9, inP9s, m.ssp) = "subspecies"
             THEN Append(its, TaxonItem("subspecies", text))
             ELSE Append(its, TaxonItem("species", m.genus \o <<" ">> \o m.sp))

\* The item list after an anchor closes with the (collapsed) text (lines 93-102).
ItemsAfterAnchor(its, text, inP9, inP9s) ==
    LET m == TaxonMatch(text)
    IN  IF ~m.matched THEN its
        ELSE IF ItemKind(inP9, inP9s, m.ssp) = "subspecies"
             THEN Append(its, TaxonItem("subspecies", text))
             ELSE Append(its, TaxonItem("species", m.genus \o <<" ">> \o m.sp))

\* Faulty variant of LastSpeciesAfterAnchor: the register takes the text of
\* every matching anchor that closes in the species region, also of one
\* recorded as a subspecies item.
LastSpeciesAfterAnyAnchor(last, text, inP9, inP9s) ==
    LET m == TaxonMatch(text)
    IN  IF m.matched /\ inP9 THEN text ELSE last

\* The last-species register after an anchor closes (lines 100-104).
LastSpeciesAfterAnchor(last, text, inP9, inP9s) ==
    LET m == TaxonMatch(text)
    IN  IF m.matched /\ ItemKind(inP9, inP9s, m.ssp) = "species" /\ inP9
        THEN m.genus \o <<" ">> \o m.sp
        ELSE last

\* Faulty variant of CommonAfterMarker: the joined buffer is stored as it is,
\* without collapsing its whitespace.
CommonAfterMarkerRaw(sc, buf, last) ==
    LET common == ConcatAll(buf)
    IN  IF Truthy(common) /\ Truthy(last) THEN DictSet(sc, last, common) ELSE sc

\* Faulty variant of CommonAfterMarker: a species that already has a name
\* keeps it (the first write wins).
CommonAfterMarkerFirst(sc, buf, last) ==
    LET common == CollapseBuf(buf)
    IN  IF Truthy(common) /\ Truthy(last) /\ last \notin DOMAIN sc
        THEN DictSet(sc, last, common) ELSE sc

\* The mapping after a common-name marker closes (lines 107-112).
CommonAfterMarker(sc, buf, last) ==
    LET common == CollapseBuf(buf)
    IN  IF Truthy(common) /\ Truthy(last) THEN DictSet(sc, last, common) ELSE sc

handle_endtag(tag) ==
    LET t == ToLower(tag)
        closesA == t = "a" /\ capture_a
        closesI == t = "i" /\ capture_common
        text == CollapseBuf(a_buf)
    IN  /\ pc = "feed"
        /\ nfed' = nfed + 1
        /\ IF closesA
           THEN /\ capture_a' = FALSE
                /\ a_buf' = << >>
                /\ items' = ItemsAfterAnchor(items, text, in_p9, in_p9s)
           ELSE UNCHANGED <<capture_a, a_buf, items>>
        /\ IF closesI
           THEN /\ capture_common' = FALSE
                /\ common_buf' = << >>
                /\ species_common' =
                       CommonAfterMarker(species_common, common_buf,
                                         last_species_in_p9)
           ELSE UNCHANGED <<capture_common, common_buf, species_common>>
        /\ last_species_in_p9' =
               IF closesA
               THEN LastSpeciesAfterAnchor(last_species_in_p9, text,
                                           in_p9, in_p9s)
               ELSE IF t = "p" /\ in_p9 THEN None
               ELSE last_species_in_p9
        /\ in_p9' = IF t = "p" THEN FALSE ELSE in_p9
        /\ in_p9s' = IF t = "p" THEN FALSE ELSE in_p9s
        /\ UNCHANGED <<pc, buildVars, mainVars>>

handle_data(data) ==
    /\ pc = "feed"
    /\ nfed' = nfed + 1
    /\ a_buf' = IF capture_a /\ data # << >> THEN Append(a_buf, data) ELSE a_buf
    /\ common_buf' = IF capture_common /\ data # << >>
                     THEN Append(common_buf, data) ELSE common_buf
    /\ UNCHANGED <<pc, items, species_common, in_p9, in_p9s, capture_a,
                   capture_common, last_species_in_p9, buildVars, mainVars>>

\* One callback of parser.feed(html), for any markup (tags in any order).
FeedStartTag ==
    /\ nfed < MaxEvents
    /\ \E st \in StartTags : handle_starttag(st[1], st[2])

FeedEndTag ==
    /\ nfed < MaxEvents
    /\ \E tag \in EndTags : handle_endtag(tag)

FeedData ==
    /\ nfed < MaxEvents
    /\ \E data \in DataChunks : handle_data(data)

Feed == FeedStartTag \/ FeedEndTag \/ FeedData

\* The start tags of a well-nested listing page that the parser reacts to:
\* a p9 or p9s paragraph opens outside any paragraph, an anchor opens inside
\* a paragraph, a common-name marker opens inside a p9 paragraph, and none
\* of them opens inside an anchor or a marker.
NestedStartTag(tag, attrs) ==
    /\ ~capture_a
    /\ ~capture_common
    /\ CASE tag = "p" -> ~in_p9 /\ ~in_p9s /\ AttrId(attrs) \in {"p9", "p9s"}
         [] tag = "a" -> in_p9 \/ in_p9s
         [] tag = "i" -> in_p9 /\ AttrId(attrs) = "e"
         [] OTHER -> FALSE

\* The end tags of a well-nested listing page: each closes the element
\* that is open.
NestedEndTag(tag) ==
    CASE tag = "a" -> capture_a
      [] tag = "i" -> capture_common /\ ~capture_a
      [] tag = "p" -> (in_p9 \/ in_p9s) /\ ~capture_a /\ ~capture_common
      [] OTHER -> FALSE

\* One callback of parser.feed(html) for a well-nested listing page.
PageStartTag ==
    /\ nfed < MaxPageEvents
    /\ \E st \in StartTags :
          NestedStartTag(st[1], st[2]) /\ handle_starttag(st[1], st[2])

PageEndTag ==
    /\ nfed < MaxPageEvents
    /\ \E tag \in EndTags : NestedEndTag(tag) /\ handle_endtag(tag)

PageData ==
    /\ nfed < MaxPageEvents
    /\ capture_a \/ capture_common
    /\ Len(a_buf) < MaxChunks
    /\ Len(common_buf) < MaxChunks
    /\ \E data \in DataChunks \ {<< >>} : handle_data(data)

PageFeed == PageStartTag \/ PageEndTag \/ PageData

(***************************************************************************)
(* build_rows                                                              *)
(***************************************************************************)
\* An output row (species, subspecies, common name).
Row(species, subspp, common) == <<species, subspp, common>>

\* Faulty variant of flush_blank_if_needed: the `not` of the condition is missing.
flush_blank_if_had(rs, cs, had, cc) ==
    IF Truthy(cs) /\ had THEN Append(rs, Row(cs, EmptyText, cc)) ELSE rs

\* Faulty variant of flush_blank_if_needed: the species epithet is written as the
\* subspecies of the nominate row.
flush_species_epithet(rs, cs, had, cc) ==
    IF Truthy(cs) /\ ~had THEN Append(rs, Row(cs, Split(cs)[2], cc)) ELSE rs

\* Faulty variant of flush_blank_if_needed: the nominate row loses the common name.
flush_without_common(rs, cs, had, cc) ==
    IF Truthy(cs) /\ ~had THEN Append(rs, Row(cs, EmptyText, EmptyText)) ELSE rs

\* Faulty variant of flush_blank_if_needed: the blank row is never appended.
flush_blank_never(rs, cs, had, cc) == rs

\* Faulty variant of flush_blank_if_needed: the blank row is appended for
\* every current species, with or without subspecies.
flush_blank_always(rs, cs, had, cc) ==
    IF Truthy(cs) THEN Append(rs, Row(cs, EmptyText, cc)) ELSE rs

\* flush_blank_if_needed(): the rows after the call (lines 166-169).
flush_blank_if_needed(rs, cs, had, cc) ==
    IF Truthy(cs) /\ ~had THEN Append(rs, Row(cs, EmptyText, cc)) ELSE rs

\* Faulty variant of SpeciesForSubspecies: the species is not inferred.
SpeciesNotInferred(cs, taxon) == cs

\* Faulty variant of SpeciesForSubspecies: the species is inferred from every
\* subspecies item, also when a species is current.
SpeciesAlwaysInferred(cs, taxon) == normalize_species(taxon)

\* The current species after a subspecies item (lines 180-183).
SpeciesForSubspecies(cs, taxon) ==
    IF ~Truthy(cs) THEN normalize_species(taxon) ELSE cs

\* Faulty variant of CommonForSubspecies: the common name is not looked up
\* when the species is inferred.
CommonNotLookedUp(cs, cc, taxon, sc) == cc

\* The current common name after a subspecies item (lines 181-183).
CommonForSubspecies(cs, cc, taxon, sc) ==
    IF ~Truthy(cs) THEN DictGet(sc, normalize_species(taxon)) ELSE cc

RECURSIVE DedupFrom(_, _, _, _)
DedupFrom(rs, i, seen, acc) ==
    IF i > Len(rs) THEN acc
    ELSE IF rs[i] \in seen
         THEN DedupFrom(rs, i + 1, seen, acc)
         ELSE DedupFrom(rs, i + 1, seen \cup {rs[i]}, Append(acc, rs[i]))

RECURSIVE DedupAdjacentFrom(_, _, _)
DedupAdjacentFrom(rs, i, acc) ==
    IF i > Len(rs) THEN acc
    ELSE IF i > 1 /\ rs[i] = rs[i - 1]
         THEN DedupAdjacentFrom(rs, i + 1, acc)
         ELSE DedupAdjacentFrom(rs, i + 1, Append(acc, rs[i]))

\* Faulty variant of Dedup: a row is dropped only when it repeats the row before it.
DedupAdjacent(rs) == DedupAdjacentFrom(rs, 1, << >>)

\* The de-duplication loop (lines 191-197).
Dedup(rs) == DedupFrom(rs, 1, {}, << >>)

\* `for it in items`, it.kind == "species" (lines 172-176).
BuildSpecies ==
    /\ pc = "loop"
    /\ idx <= Len(items)
    /\ items[idx].kind = "species"
    /\ rows' = flush_blank_if_needed(rows, current_species,
                                     current_species_had_subspecies,
                                     current_common)
    /\ current_species' = normalize_species(items[idx].taxon)
    /\ current_common' =
           DictGet(species_common, normalize_species(items[idx].taxon))
    /\ current_species_had_subspecies' = FALSE
    /\ idx' = idx + 1
    /\ UNCHANGED <<pc, nfed, parserVars, deduped, mainVars>>

\* `for it in items`, it.kind == "subspecies" (lines 178-186).
BuildSubspecies ==
    /\ pc = "loop"
    /\ idx <= Len(items)
    /\ items[idx].kind = "subspecies"
    /\ current_species' = SpeciesForSubspecies(current_species, items[idx].taxon)
    /\ current_common' = CommonForSubspecies(current_species, current_common,
                                             items[idx].taxon, species_common)
    /\ current_species_had_subspecies' = TRUE
    /\ rows' = Append(rows, Row(current_species',
                                subspecies_epithet_only(items[idx].taxon),
                                current_common'))
    /\ idx' = idx + 1
    /\ UNCHANGED <<pc, nfed, parserVars, deduped, mainVars>>

\* The flush after the loop (line 188).
BuildFlush ==
    /\ pc = "loop"
    /\ idx > Len(items)
    /\ rows' = flush_blank_if_needed(rows, current_species,
                                     current_species_had_subspecies,
                                     current_common)
    /\ pc' = "dedup"
    /\ UNCHANGED <<nfed, parserVars, current_species, current_common,
                   current_species_had_subspecies, idx, deduped, mainVars>>

\* The de-duplication and the return (lines 190-199).
BuildReturn ==
    /\ pc = "dedup"
    /\ deduped' = Dedup(rows)
    /\ pc' = "built"
    /\ UNCHANGED <<nfed, parserVars, rows, current_species, current_common,
                   current_species_had_subspecies, idx, mainVars>>

BuildRows == BuildSpecies \/ BuildSubspecies \/ BuildFlush \/ BuildReturn

(***************************************************************************)
(* main                                                                    *)
(***************************************************************************)
\* fetch_html(url) returns the decoded text, or raises (line 334); an
\* uncaught exception ends the process with status 1.
MainFetch ==
    /\ pc = "start"
    /\ \/ pc' = "feed" /\ UNCHANGED exit_code
       \/ pc' = "raised" /\ exit_code' = "1"
    /\ UNCHANGED <<nfed, parserVars, buildVars, writer_calls>>

\* parser.feed(html) returns: the document is exhausted (line 337).
MainFeedDone ==
    /\ pc = "feed"
    /\ pc' = "parsed"
    /\ UNCHANGED <<nfed, parserVars, buildVars, mainVars>>

\* Faulty variant of MainNoTaxa: the run without taxa ends with status 0.
MainNoTaxaReturns0 ==
    /\ pc = "parsed"
    /\ items = << >>
    /\ pc' = "exit"
    /\ exit_code' = "0"
    /\ UNCHANGED <<nfed, parserVars, buildVars, writer_calls>>

\* `if not parser.items: ... return 2` (lines 339-341).
MainNoTaxa ==
    /\ pc = "parsed"
    /\ items = << >>
    /\ pc' = "exit"
    /\ exit_code' = "2"
    /\ UNCHANGED <<nfed, parserVars, buildVars, writer_calls>>

\* The call build_rows(parser.items, parser.species_common) (lines 343,
\* 160-164).
MainCallBuildRows ==
    /\ pc = "parsed"
    /\ items # << >>
    /\ pc' = "loop"
    /\ rows' = << >>
    /\ current_species' = EmptyText
    /\ current_common' = EmptyText
    /\ current_species_had_subspecies' = FALSE
    /\ idx' = 1
    /\ UNCHANGED <<nfed, parserVars, deduped, mainVars>>

\* `if not rows: ... return 2`, else the call of write_xlsx (lines 344-348).
MainCheckRows ==
    /\ pc = "built"
    /\ IF deduped = << >>
       THEN /\ pc' = "exit"
            /\ exit_code' = "2"
            /\ UNCHANGED writer_calls
       ELSE /\ pc' = "writing"
            /\ writer_calls' = Append(writer_calls, deduped)
            /\ UNCHANGED exit_code
    /\ UNCHANGED <<nfed, parserVars, buildVars>>

\* write_xlsx returns and main returns 0 (lines 349-350), or write_xlsx
\* raises (the file cannot be written).
MainWritten ==
    /\ pc = "writing"
    /\ \/ pc' = "exit" /\ exit_code' = "0"
       \/ pc' = "raised" /\ exit_code' = "1"
    /\ UNCHANGED <<nfed, parserVars, buildVars, writer_calls>>

Main ==
    \/ MainFetch
    \/ MainFeedDone
    \/ MainNoTaxa
    \/ MainCallBuildRows
    \/ MainCheckRows
    \/ MainWritten

(***************************************************************************)
(* Specifications.                                                         *)
(***************************************************************************)
\* One run of main.
Init ==
    /\ pc = "start"
    /\ nfed = 0
    /\ ParserInit
    /\ BuildIdle
    /\ writer_calls = << >>
    /\ exit_code = "unset"

Next == Feed \/ BuildRows \/ Main

Spec == Init /\ [][Next]_vars

\* One run of main on a well-nested listing page.
NextPage == PageFeed \/ BuildRows \/ Main

SpecPage == Init /\ [][NextPage]_vars

(***************************************************************************)
(* build_rows alone, on every item list and mapping within the bounds.     *)
(***************************************************************************)
\* The binomials of the species items handed to build_rows.
BinomialTexts ==
    { <<"P", "a", " ", "b">>,
      <<"P", "a", " ", "c", "-", "a">> }

\* The texts of the subspecies items handed to build_rows: trinomials, and
\* a two-word text (the parser records one for a binomial anchor in p9s).
SubspeciesTexts ==
    { <<"P", "a", " ", "b", " ", "b">>,
      <<"P", "a", " ", "b", " ", "c">>,
      <<"P", "a", " ", "c", "-", "a", " ", "c">>,
      <<"P", "a", " ", "b">> }

\* The common names of the mappings handed to build_rows.
CommonTexts == { <<"c">>, <<"c", " ", "c">> }

\* The items the parser can record.
ItemValues ==
    { TaxonItem("species", t) : t \in BinomialTexts }
        \cup { TaxonItem("subspecies", t) : t \in SubspeciesTexts }

\* The item lists of at most MaxItems items.
ItemLists == UNION { [1..n -> ItemValues] : n \in 0..MaxItems }

\* The binomials of the species items of an item list: the keys the parser
\* can have mapped.
SpeciesTaxaOf(its) ==
    { its[i].taxon : i \in { j \in 1..Len(its) : its[j].kind = "species" } }

\* The mappings the parser can hand over with an item list.
MappingsFor(its) ==
    UNION { [keys -> CommonTexts] : keys \in SUBSET SpeciesTaxaOf(its) }

\* build_rows(items, species_common) is entered (lines 160-164).
InitBuild ==
    /\ pc = "loop"
    /\ nfed = 0
    /\ items \in ItemLists
    /\ species_common \in MappingsFor(items)
    /\ in_p9 = FALSE
    /\ in_p9s = FALSE
    /\ capture_a = FALSE
    /\ a_buf = << >>
    /\ capture_common = FALSE
    /\ common_buf = << >>
    /\ last_species_in_p9 = None
    /\ BuildIdle
    /\ writer_calls = << >>
    /\ exit_code = "unset"

SpecBuild == InitBuild /\ [][BuildRows]_vars

(***************************************************************************)
(* Vocabulary of the properties of build_rows.  These definitions read the *)
(* item list (the event sequence) and the rows; they do not use the        *)
(* operators that model build_rows.                                        *)
(***************************************************************************)
IsSpeciesAt(i) == i \in 1..Len(items) /\ items[i].kind = "species"
IsSubspeciesAt(i) == i \in 1..Len(items) /\ items[i].kind = "subspecies"

\* The words of a text, and the text made of its first two words.
WordsOf(t) == Split(t)
FirstTwoWords(t) == WordsOf(t)[1] \o <<" ">> \o WordsOf(t)[2]
LastWord(t) == WordsOf(t)[Len(WordsOf(t))]

\* The mapped common name of a species, "" when it has none.
MappedCommon(sp) ==
    IF sp \in DOMAIN species_common THEN species_common[sp] ELSE << >>

\* The number of Subspecies events that follow the Species event at i
\* before the next Species event or the end of the stream.
BlockSize(i) ==
    Cardinality({ j \in (i + 1)..Len(items) :
                    \A k \in (i + 1)..j : items[k].kind = "subspecies" })

\* The Species event at i has no Subspecies event in its block.
NominateBlockAt(i) == IsSpeciesAt(i) /\ BlockSize(i) = 0

\* The number of rows emitted once the events 1..i are consumed: one per
\* Subspecies event, and one per Species event that is directly followed by
\* another Species event (its nominate row, emitted at that next event).
RowsAfter(i) ==
    Cardinality({ j \in 1..i : items[j].kind = "subspecies" })
        + Cardinality({ j \in 1..(i - 1) :
                          items[j].kind = "species"
                              /\ items[j + 1].kind = "species" })

\* The number of rows emitted once the stream has ended.
RowsAtEnd ==
    RowsAfter(Len(items)) + (IF NominateBlockAt(Len(items)) THEN 1 ELSE 0)

\* The rows of a list whose species column is sp.
RowsOfSpecies(rs, sp) == { k \in 1..Len(rs) : rs[k][1] = sp }

\* The rows of build_rows' result, as a set.
RowSet(rs) == { rs[k] : k \in 1..Len(rs) }

RECURSIVE FirstOccurrences(_, _)
\* The first n rows of rs with every later repeat removed.
FirstOccurrences(rs, n) ==
    IF n = 0 THEN << >>
    ELSE IF \E j \in 1..(n - 1) : rs[j] = rs[n]
         THEN FirstOccurrences(rs, n - 1)
         ELSE Append(FirstOccurrences(rs, n - 1), rs[n])

(***************************************************************************)
(* Properties of build_rows (specification SpecBuild).                     *)
(***************************************************************************)
\* C1: every Species event with binomial S results in at least one row of
\* the returned (de-duplicated) list whose species column is S.
C1_NoSpeciesDropped ==
    pc = "built" =>
        \A i \in 1..Len(items) :
            items[i].kind = "species" =>
                RowsOfSpecies(deduped, items[i].taxon) # {}

\* C1 witness: build_rows has returned for a stream with two different
\* species, one with a subspecies and one without, and a repeat was removed.
C1_Witness ==
    /\ pc = "built"
    /\ \E i, j \in 1..Len(items) :
          /\ IsSpeciesAt(i) /\ IsSpeciesAt(j)
          /\ items[i].taxon # items[j].taxon
          /\ BlockSize(i) > 0
          /\ BlockSize(j) = 0
    /\ Len(deduped) < Len(rows)

\* C2: the returned list holds no two identical rows, and it is the emitted
\* row sequence with every later repeat removed (first occurrences, in
\* order).
C2_DedupFirstOccurrences ==
    pc = "built" =>
        /\ \A i, j \in 1..Len(deduped) : i # j => deduped[i] # deduped[j]
        /\ deduped = FirstOccurrences(rows, Len(rows))

\* C2 witness: a repeat that is not adjacent to its first occurrence was
\* removed, and at least two rows are returned.
C2_Witness ==
    /\ pc = "built"
    /\ Len(deduped) >= 2
    /\ \E i, j \in 1..Len(rows) :
          i + 1 < j /\ rows[i] = rows[j] /\ rows[i + 1] # rows[i]

\* A species sp has zero Subspecies events: every Species event of sp is
\* directly followed by another Species event or by the end of the stream,
\* and sp is not the species inferred for subspecies that open the stream.
ZeroSubspecies(sp) ==
    /\ \E i \in 1..Len(items) : IsSpeciesAt(i) /\ items[i].taxon = sp
    /\ \A i \in 1..Len(items) :
          (IsSpeciesAt(i) /\ items[i].taxon = sp) => NominateBlockAt(i)
    /\ ~(IsSubspeciesAt(1) /\ FirstTwoWords(items[1].taxon) = sp)

\* C3: nominate synthesis: a species with zero Subspecies events gets
\* exactly one row, with an empty subspecies field and the mapped common
\* name ("" when the species has no mapping).
C3_NominateSynthesis ==
    pc = "built" =>
        \A sp \in BinomialTexts :
            ZeroSubspecies(sp) =>
                /\ Cardinality(RowsOfSpecies(deduped, sp)) = 1
                /\ \A k \in RowsOfSpecies(deduped, sp) :
                      deduped[k] = <<sp, << >>, MappedCommon(sp)>>

\* C3 witness: build_rows has returned for a stream in which a mapped and
\* an unmapped species have zero Subspecies events and one of them occurs
\* twice.
C3_Witness ==
    /\ pc = "built"
    /\ \E sp, sq \in BinomialTexts :
          /\ ZeroSubspecies(sp) /\ sp \in DOMAIN species_common
          /\ ZeroSubspecies(sq) /\ sq \notin DOMAIN species_common
    /\ Len(deduped) < Len(rows)

\* A nominate row is due at the current step: the species branch or the
\* final flush runs while a species without subspecies is current.
NominateRowDue ==
    /\ pc = "loop"
    /\ current_species # << >>
    /\ ~current_species_had_subspecies
    /\ (idx > Len(items) \/ items[idx].kind = "species")

\* C4 as stated: the nominate row is (currentSpecies, second word of the
\* binomial, currentCommon).
C4_NominateRowSpeciesEpithet ==
    [][NominateRowDue =>
          rows' = Append(rows, <<current_species, WordsOf(current_species)[2],
                                 current_common>>)]_vars

\* C4 amended: the nominate row emitted for a species without subspecies
\* (at the next Species event or at the end of the stream) is
\* (currentSpecies, "", currentCommon); the single unmapped Species event
\* "Pa b" yields exactly the row ("Pa b", "", "").
C4_NominateRowBlank ==
    /\ [][NominateRowDue =>
             rows' = Append(rows, <<current_species, << >>,
                                    current_common>>)]_vars
    /\ []((/\ pc = "built"
           /\ items = <<TaxonItem("species", <<"P", "a", " ", "b">>)>>
           /\ species_common = EmptyDict)
          => deduped = << <<<<"P", "a", " ", "b">>, << >>, << >>>> >>)

\* C4 witness: a nominate row with a common name was emitted at a Species
\* event, and another at the end of the stream.
C4_Witness ==
    /\ pc = "dedup"
    /\ Len(rows) >= 2
    /\ rows[1][2] = << >> /\ rows[1][3] # << >>
    /\ rows[Len(rows)][2] = << >>
    /\ IsSpeciesAt(1) /\ IsSpeciesAt(2) /\ IsSpeciesAt(Len(items))

\* The rows of the block of the Species event at i: one per Subspecies
\* event of the block, in order.
BlockRow(i, k) ==
    <<items[i].taxon, LastWord(items[i + k].taxon),
      MappedCommon(items[i].taxon)>>

\* C5 as stated: a Species event followed by N >= 1 Subspecies events
\* yields N rows of the returned list, the k-th with the k-th trinomial's
\* last word.
C5_BlockRowsReturned ==
    pc = "built" =>
        \A i \in 1..Len(items) :
            (IsSpeciesAt(i) /\ BlockSize(i) >= 1) =>
                \E off \in 0..Len(deduped) :
                    /\ off + BlockSize(i) <= Len(deduped)
                    /\ \A k \in 1..BlockSize(i) :
                          deduped[off + k] = BlockRow(i, k)

\* The rows of the block at i differ from one another and from every row
\* emitted before the block.
BlockRowsFresh(i) ==
    /\ \A k, l \in 1..BlockSize(i) : k # l => BlockRow(i, k) # BlockRow(i, l)
    /\ \A k \in 1..BlockSize(i) : \A j \in 1..RowsAfter(i) :
          rows[j] # BlockRow(i, k)

\* The number of different rows emitted before the block at i.
DistinctBefore(i) == Cardinality({ rows[j] : j \in 1..RowsAfter(i) })

\* C5 amended: a Species event followed by N >= 1 Subspecies events makes
\* build_rows emit exactly N consecutive rows for the block before the
\* de-duplication, all with the block's species and common name, the k-th
\* with the last word of the k-th trinomial, and no nominate row for the
\* block; the returned list keeps each of these rows once, and holds
\* exactly these N rows in a row when they differ from one another and from
\* every row emitted earlier.
C5_BlockRowsEmitted ==
    pc \in {"dedup", "built"} =>
        /\ Len(rows) = RowsAtEnd
        /\ \A i \in 1..Len(items) :
              (IsSpeciesAt(i) /\ BlockSize(i) >= 1) =>
                  /\ \A k \in 1..BlockSize(i) :
                        /\ rows[RowsAfter(i) + k] = BlockRow(i, k)
                        /\ pc = "built" => BlockRow(i, k) \in RowSet(deduped)
                  /\ (pc = "built" /\ BlockRowsFresh(i)) =>
                        \A k \in 1..BlockSize(i) :
                            deduped[DistinctBefore(i) + k] = BlockRow(i, k)

\* C5 witness: a block of two Subspecies events with different last words
\* and a mapped common name, followed by another Species event.
C5_Witness ==
    /\ pc = "built"
    /\ \E i \in 1..Len(items) :
          /\ IsSpeciesAt(i)
          /\ BlockSize(i) = 2
          /\ IsSpeciesAt(i + 3)
          /\ items[i].taxon \in DOMAIN species_common
          /\ LastWord(items[i + 1].taxon) # LastWord(items[i + 2].taxon)

\* The row of a Subspecies event that opens the stream.
OrphanRow ==
    <<FirstTwoWords(items[1].taxon), LastWord(items[1].taxon),
      MappedCommon(FirstTwoWords(items[1].taxon))>>

\* C7: a Subspecies event that arrives first, with no species current, is
\* not discarded: the current species becomes the first two words of its
\* text, the common name is the one mapped to that species, and the row
\* (first two words, last word, mapped common name) is emitted and returned.
C7_OrphanSubspecies ==
    (IsSubspeciesAt(1) /\ idx > 1) =>
        /\ Len(rows) >= 1
        /\ rows[1] = OrphanRow
        /\ idx = 2 =>
              /\ current_species = FirstTwoWords(items[1].taxon)
              /\ current_common = MappedCommon(current_species)
        /\ pc = "built" => (Len(deduped) >= 1 /\ deduped[1] = OrphanRow)

\* C7 witness: build_rows has returned for a stream opened by a trinomial
\* Subspecies event whose species is mapped (by a later Species event).
C7_Witness ==
    /\ pc = "built"
    /\ IsSubspeciesAt(1)
    /\ Len(WordsOf(items[1].taxon)) = 3
    /\ FirstTwoWords(items[1].taxon) \in DOMAIN species_common
    /\ deduped[1][3] # << >>

(***************************************************************************)
(* Properties of the parser and of main (specification Spec).              *)
(***************************************************************************)
\* A captured common-name marker closes at the current step.
MarkerCloses == capture_common /\ ~capture_common'

\* The text of the marker that closes: its chunks joined, whitespace runs
\* collapsed to one space, trimmed.
MarkerText == JoinSpace(Split(ConcatAll(common_buf)))

\* The positions of the Species items recorded so far.
SpeciesPositions == { i \in 1..Len(items) : items[i].kind = "species" }

\* The binomial of the species anchor recorded last.
LastSpeciesAnchor ==
    items[CHOOSE i \in SpeciesPositions : \A j \in SpeciesPositions : j <= i].taxon

\* Every returned row carries the common name mapped to its species.
RowsCarryMappedName ==
    \A k \in 1..Len(deduped) : deduped[k][3] = MappedCommon(deduped[k][1])

\* C6 as stated: a common-name marker with non-empty text that comes after
\* the anchor of species S and before the next species anchor maps S to
\* that text; the entry is the name every row of S carries, so it is not
\* changed afterwards.
C6_CommonNameInheritance ==
    /\ [][(MarkerCloses /\ MarkerText # << >> /\ SpeciesPositions # {}) =>
             /\ LastSpeciesAnchor \in DOMAIN species_common'
             /\ species_common'[LastSpeciesAnchor] = MarkerText]_vars
    /\ [][\A sp \in DOMAIN species_common :
             species_common'[sp] = species_common[sp]]_vars
    /\ [](pc = "built" => RowsCarryMappedName)

\* C6 amended: when a common-name marker opened inside the species region
\* closes with non-empty text while the last-species register holds
\* "Genus species" (its anchor closed in the species region that is still
\* the last one entered), the parser maps "Genus species" to that text,
\* replacing an earlier name; every output row whose species is
\* "Genus species" carries the name mapped to it when parsing ended.
C6_CommonNameOfRegister ==
    /\ [][(MarkerCloses /\ MarkerText # << >> /\ last_species_in_p9 # << >>) =>
             /\ last_species_in_p9 \in DOMAIN species_common'
             /\ species_common'[last_species_in_p9] = MarkerText]_vars
    /\ [](pc = "built" => RowsCarryMappedName)

\* C6 witness: a subspecies row and a nominate row of the returned list
\* carry the common names that markers gave to their species.
C6_Witness ==
    /\ pc = "built"
    /\ \E k, l \in 1..Len(deduped) :
          /\ deduped[k][2] # << >>
          /\ deduped[k][3] # << >>
          /\ deduped[k][1] \in DOMAIN species_common
          /\ deduped[l][2] = << >>
          /\ deduped[l][3] # << >>

\* C8: main ends with status 2, the writer not invoked, when the parser
\* recorded no items or build_rows returned no rows; it ends with status 0
\* only after the writer was invoked once with the non-empty returned list;
\* the writer is not invoked before parsing and row building are complete.
C8_RunOutcome ==
    /\ (pc = "exit" /\ items = << >>) =>
          (exit_code = "2" /\ writer_calls = << >>)
    /\ (pc = "exit" /\ items # << >> /\ deduped = << >>) =>
          (exit_code = "2" /\ writer_calls = << >>)
    /\ exit_code = "2" => writer_calls = << >>
    /\ exit_code = "0" =>
          (pc = "exit" /\ writer_calls = <<deduped>> /\ deduped # << >>)
    /\ writer_calls # << >> =>
          /\ pc \in {"writing", "exit", "raised"}
          /\ writer_calls = <<Dedup(rows)>>
          /\ idx = Len(items) + 1

\* C8 witness: main has returned 0 after writing two rows.
C8_Witness ==
    /\ pc = "exit"
    /\ exit_code = "0"
    /\ Len(writer_calls) = 1
    /\ Len(writer_calls[1]) = 2

\* A captured anchor closes at the current step.
AnchorCloses == capture_a /\ ~capture_a'

\* The text of the anchor that closes.
AnchorText == JoinSpace(Split(ConcatAll(a_buf)))

\* The text matches the two-word pattern Capitalized-word lowercase-word.
TwoWordTaxon(text) ==
    /\ Len(WordsOf(text)) = 2
    /\ IsGenusWord(WordsOf(text)[1])
    /\ IsEpithetWord(WordsOf(text)[2])

\* C10: a captured anchor that closes with text matching the two-word
\* pattern is recorded as a Species event, in the species region and in the
\* subspecies region alike, never as a Subspecies event.
C10_TwoWordIsSpecies ==
    [][(AnchorCloses /\ TwoWordTaxon(AnchorText)) =>
          items' = Append(items, [kind |-> "species", taxon |-> AnchorText])]_vars

\* The text matches the three-word pattern
\* Capitalized-word lowercase-word lowercase-word.
ThreeWordTaxon(text) ==
    /\ Len(WordsOf(text)) = 3
    /\ IsGenusWord(WordsOf(text)[1])
    /\ IsEpithetWord(WordsOf(text)[2])
    /\ IsEpithetWord(WordsOf(text)[3])

\* C11: whenever a captured anchor closes with text matching the three-word
\* pattern and an item is recorded for it, the item is a Subspecies event
\* carrying the full trinomial, for every interleaving of anchor open/close
\* with region open/close (an anchor closing after its region closed too).
C11_ThreeWordIsSubspecies ==
    [][(AnchorCloses /\ ThreeWordTaxon(AnchorText) /\ items' # items) =>
          items' = Append(items,
                          [kind |-> "subspecies", taxon |-> AnchorText])]_vars

\* The start tags that open a p9 container, and those that open a p9s
\* container: a p element whose id (attribute name in any case) is the
\* marker value.
OpensP9 ==
    { st \in StartTags :
        st[1] = "p" /\ \E k \in 1..Len(st[2]) :
            st[2][k][1] \in {"id", "ID"} /\ st[2][k][2] = <<"p9">> }
OpensP9s ==
    { st \in StartTags :
        st[1] = "p" /\ \E k \in 1..Len(st[2]) :
            st[2][k][1] \in {"id", "ID"} /\ st[2][k][2] = <<"p9s">> }

\* C12: the species-region flag and the subspecies-region flag are never
\* both true; opening a p9 container sets the species flag and clears the
\* subspecies flag, opening a p9s container sets the subspecies flag and
\* clears the species flag, and a paragraph close clears both.
C12_RegionsExclusive ==
    /\ [](~(in_p9 /\ in_p9s))
    /\ [][\A st \in OpensP9 :
             handle_starttag(st[1], st[2]) => (in_p9' /\ ~in_p9s')]_vars
    /\ [][\A st \in OpensP9s :
             handle_starttag(st[1], st[2]) => (in_p9s' /\ ~in_p9')]_vars
    /\ [][handle_endtag("p") => (~in_p9' /\ ~in_p9s')]_vars

\* C12 witness: the subspecies region was opened while the species region
\* was open (the register still holds the species seen there), and the
\* species flag is cleared.
C12_Witness ==
    /\ pc = "feed"
    /\ in_p9s
    /\ ~in_p9
    /\ last_species_in_p9 # << >>

\* C13: the last-species register is empty whenever the parser is not
\* inside the species region, whether the region was closed by a paragraph
\* close or by the opening of the subspecies region.
C13_RegisterEmptyOutsideP9 ==
    ~in_p9 => last_species_in_p9 = << >>

\* C14: on the close of a captured common-name marker, the mapping changes
\* only if the normalized buffer is non-empty and the last-species register
\* is set; in that case the entry of the register's binomial is set to the
\* buffered text (replacing a prior value) and every other entry is left as
\* it is; otherwise the whole mapping is unchanged.  The item list is not
\* changed by a marker: it changes only when a captured anchor closes.
C14_MarkerCloseFrame ==
    /\ [][MarkerCloses =>
             IF MarkerText # << >> /\ last_species_in_p9 # << >>
             THEN /\ DOMAIN species_common' =
                        DOMAIN species_common \cup {last_species_in_p9}
                  /\ species_common'[last_species_in_p9] = MarkerText
                  /\ \A k \in DOMAIN species_common \ {last_species_in_p9} :
                        species_common'[k] = species_common[k]
             ELSE species_common' = species_common]_vars
    /\ [][species_common' # species_common =>
             (MarkerCloses /\ MarkerText # << >>
                 /\ last_species_in_p9 # << >>)]_vars
    /\ [][MarkerCloses => items' = items]_vars
    /\ [][items' # items => AnchorCloses]_vars

\* C14 witness: markers have mapped two species, the second entry written
\* while the first was kept.
C14_Witness ==
    /\ pc = "feed"
    /\ ~capture_common
    /\ Cardinality(DOMAIN species_common) = 2

\* build_rows is about to consume a Subspecies event while a species is
\* current.
SubspeciesWithCurrent ==
    /\ pc = "loop"
    /\ idx <= Len(items)
    /\ items[idx].kind = "subspecies"
    /\ current_species # << >>

\* C15: a Subspecies event received while a species is current changes
\* neither the current species nor the current common name, also when the
\* first two words of its trinomial differ from the current species; it
\* sets currentHasSubspecies and appends the row (currentSpecies, last word
\* of the trinomial, currentCommon).
C15_SubspeciesKeepsCurrent ==
    [][SubspeciesWithCurrent =>
          /\ current_species' = current_species
          /\ current_common' = current_common
          /\ current_species_had_subspecies' = TRUE
          /\ rows' = Append(rows, <<current_species,
                                    LastWord(items[idx].taxon),
                                    current_common>>)]_vars

\* C15 witness: a Subspecies event whose first two words differ from the
\* current, mapped species has just been consumed, and the species of its
\* own first two words is mapped to another name.
C15_Witness ==
    /\ pc = "loop"
    /\ idx > 2
    /\ IsSubspeciesAt(idx - 1)
    /\ current_species # FirstTwoWords(items[idx - 1].taxon)
    /\ current_common # << >>
    /\ MappedCommon(FirstTwoWords(items[idx - 1].taxon))
           \notin {<< >>, current_common}
    /\ rows[Len(rows)] = <<current_species, LastWord(items[idx - 1].taxon),
                           current_common>>

\* The rows of a list whose subspecies field is blank.
BlankRows(rs) == { k \in 1..Len(rs) : rs[k][2] = << >> }

C17_NonMatchingAnchorDiscarded ==
    [][(AnchorCloses /\ ~TwoWordTaxon(AnchorText)
            /\ ~ThreeWordTaxon(AnchorText)) =>
          /\ items' = items
          /\ species_common' = species_common
          /\ in_p9' = in_p9
          /\ in_p9s' = in_p9s
          /\ last_species_in_p9' = last_species_in_p9
          /\ capture_common' = capture_common
          /\ common_buf' = common_buf
          /\ ~capture_a'
          /\ a_buf' = << >>
          /\ pc' = "feed"
          /\ exit_code' = "unset"]_vars

\* C17 witness: the page so far is a p9s paragraph holding one anchor with
\* one text chunk, the anchor has closed and nothing was recorded.
C17_Witness ==
    /\ pc = "feed"
    /\ nfed = 4
    /\ in_p9s
    /\ ~capture_a
    /\ a_buf = << >>
    /\ items = << >>

\* C18: the rows-empty outcome is unreachable: whenever the item list
\* handed to build_rows is non-empty, build_rows returns a non-empty row
\* list, so main ends with status 2 only when the parser recorded no items
\* (build_rows was then not called).
C18_RowsEmptyUnreachable ==
    /\ (pc \in {"built", "writing"} /\ items # << >>) => deduped # << >>
    /\ pc = "dedup" => rows # << >>
    /\ exit_code = "2" =>
          (items = << >> /\ rows = << >> /\ idx = 1 /\ deduped = << >>)

\* C18 witness: build_rows has returned a single row for three recorded
\* items (the repeats were removed) and main has called the writer.
C18_Witness ==
    /\ pc = "writing"
    /\ Len(items) >= 3
    /\ Len(deduped) = 1
    /\ writer_calls = <<deduped>>

\* C19: every row of build_rows, emitted or returned, carries the common
\* name mapped to its species column ("" when the species has no mapping);
\* the current species and the current common name are updated together,
\* so the current common name is always the one mapped to the current
\* species, and all rows that share a species share one common name.
C19_RowCommonIsMapped ==
    /\ current_common = MappedCommon(current_species)
    /\ \A k \in 1..Len(rows) : rows[k][3] = MappedCommon(rows[k][1])
    /\ pc = "built" =>
          /\ \A k \in 1..Len(deduped) :
                /\ deduped[k][1] \in DOMAIN species_common =>
                      deduped[k][3] = species_common[deduped[k][1]]
                /\ deduped[k][1] \notin DOMAIN species_common =>
                      deduped[k][3] = << >>
          /\ \A k, l \in 1..Len(deduped) :
                deduped[k][1] = deduped[l][1] => deduped[k][3] = deduped[l][3]

\* C19 witness: the output holds a subspecies row and a nominate row of one
\* mapped species, both with its name, and a row of an unmapped species.
C19_Witness ==
    /\ pc = "built"
    /\ \E k, l, m \in 1..Len(deduped) :
          /\ k # l
          /\ deduped[k][1] = deduped[l][1]
          /\ deduped[k][2] # << >>
          /\ deduped[l][2] = << >>
          /\ deduped[k][3] # << >>
          /\ deduped[m][1] \notin DOMAIN species_common

\* A Species item with binomial sp is in the recorded item list.
SpeciesRecorded(sp) ==
    \E i \in 1..Len(items) : items[i] = [kind |-> "species", taxon |-> sp]

\* C20: every key of the species-to-common-name mapping is the binomial of
\* a Species item already in the recorded item list, never the text of an
\* unrecorded species or a subspecies trinomial; the last-species register,
\* from which the keys are taken, holds only such a binomial.
C20_KeysAreRecordedSpecies ==
    /\ \A sp \in DOMAIN species_common :
          SpeciesRecorded(sp) /\ TwoWordTaxon(sp)
    /\ last_species_in_p9 # << >> =>
          (SpeciesRecorded(last_species_in_p9)
              /\ TwoWordTaxon(last_species_in_p9))

\* C20 witness: a species is mapped while the item list also holds an item
\* whose text is not a key.
C20_Witness ==
    /\ pc = "feed"
    /\ DOMAIN species_common # {}
    /\ \E i \in 1..Len(items) : items[i].taxon \notin DOMAIN species_common

====
